---- MODULE Spec2Model ----
(***************************************************************************)
(* A model of scripts/test_cu_mask.py: the compute-unit mask allocator     *)
(* (get_cu_mask), the configuration builder (generate_config), the Runner  *)
(* subprocess protocol (run_process) and the sweep loop of __main__.       *)
(*                                                                         *)
(* Python integers are unbounded and signed.  An integer is modelled by a  *)
(* record [neg, bits] in two's complement with an infinite sign extension: *)
(*   neg = FALSE : the value is the sum of 2^b for b in bits               *)
(*   neg = TRUE  : the value is ~(sum of 2^b for b in bits) = -(sum) - 1   *)
(* so "bits" always holds the positions that differ from the sign bit.     *)
(***************************************************************************)
EXTENDS Integers, Sequences, FiniteSets, TLC

\* ---------------------------------------------------------------- bounds
MaxUnits == 3          \* TPC bit positions 0 .. MaxUnits-1 exist on the hardware
MaxGroups == 3         \* at most this many GPCs in a topology
MaxCount == 3          \* --cu_count and --start_count range over -1 .. MaxCount

\* ------------------------------------------------------ program constants
WordBits == 64         \* 0xffffffffffffffff
HexDigits == 16        \* "%016x"
ConfigDevice == 0      \* "cuda_device": 0

ScanCap == MaxGroups + 1    \* the scan counter (a history variable) saturates here
Devices == {0, 1}

\* ------------------------------------------------------- Python integers
Min(S) == CHOOSE x \in S : \A y \in S : x <= y

PyInt(S) == [neg |-> FALSE, bits |-> S]

Zero == PyInt({})

\* ~x
PyInvert(x) == [neg |-> ~x.neg, bits |-> x.bits]

\* the lowest position above or at k that is not in T
FirstFree(T, k) == Min({j \in k..(k + Cardinality(T)) : j \notin T})

\* T + 2^k on a set of bit positions (carry to the first free position)
AddPow(T, k) == LET j == FirstFree(T, k) IN (T \ (k..(j - 1))) \cup {j}

\* x - 2^k
PySubPow(x, k) ==
    IF x.neg
    THEN [neg |-> TRUE, bits |-> AddPow(x.bits, k)]
    ELSE IF k \in x.bits
         THEN PyInt(x.bits \ {k})
         ELSE IF \E j \in x.bits : j > k
              THEN LET j == Min({i \in x.bits : i > k})
                   IN PyInt((x.bits \ {j}) \cup (k..(j - 1)))
              ELSE [neg |-> TRUE, bits |-> (0..(k - 1)) \ x.bits]

\* a bug: nothing is subtracted
PySubNone(x, y) == x

\* x - y, for the y this program subtracts: 0 or a single bit
PySub(x, y) == IF y.bits = {} THEN x ELSE PySubPow(x, Min(y.bits))

\* a bug: the leftmost set bit is taken
LowBitHighest(mask) ==
    IF mask.neg \/ mask.bits = {} THEN Zero
    ELSE PyInt({CHOOSE x \in mask.bits : \A y \in mask.bits : y <= x})

\* mask & (-mask): the rightmost set bit of mask, 0 for mask = 0
LowBit(mask) ==
    IF mask.neg
    THEN PyInt({FirstFree(mask.bits, 0)})
    ELSE IF mask.bits = {} THEN Zero ELSE PyInt({Min(mask.bits)})

\* x | y
PyOr(x, y) ==
    IF x.neg /\ y.neg THEN [neg |-> TRUE, bits |-> x.bits \cap y.bits]
    ELSE IF x.neg THEN [neg |-> TRUE, bits |-> x.bits \ y.bits]
    ELSE IF y.neg THEN [neg |-> TRUE, bits |-> y.bits \ x.bits]
    ELSE PyInt(x.bits \cup y.bits)

\* a bug: the accumulator is not shifted
PyShlNone(x) == x

\* x << 1
PyShl1(x) ==
    IF x.neg
    THEN [neg |-> TRUE, bits |-> {i + 1 : i \in x.bits} \cup {0}]
    ELSE PyInt({i + 1 : i \in x.bits})

\* the set bits of x & 0xffffffffffffffff
And64(x) ==
    IF x.neg THEN (0..(WordBits - 1)) \ x.bits
    ELSE x.bits \cap (0..(WordBits - 1))

\* a bug: the ones of the mask are counted where those of ~mask are meant
\* (for the mask ~T, bin() writes the digits of T + 1)
BinCount1OfMask(x) == Cardinality(AddPow(x.bits, 0))

\* bin(x).count("1"): bin() writes a negative number as "-0b" and the digits
\* of its absolute value, and |~T| = T + 1
BinCount1(x) ==
    IF x.neg THEN Cardinality(AddPow(x.bits, 0)) ELSE Cardinality(x.bits)

\* ------------------------------------------------------------ formatting
HexChar(v) ==
    <<"0", "1", "2", "3", "4", "5", "6", "7",
      "8", "9", "a", "b", "c", "d", "e", "f">>[v + 1]

Nibble(S, i) ==
    (IF 4 * i \in S THEN 1 ELSE 0) + (IF 4 * i + 1 \in S THEN 2 ELSE 0)
  + (IF 4 * i + 2 \in S THEN 4 ELSE 0) + (IF 4 * i + 3 \in S THEN 8 ELSE 0)

RECURSIVE HexFrom(_, _)
HexFrom(S, i) == IF i < 0 THEN "" ELSE HexChar(Nibble(S, i)) \o HexFrom(S, i - 1)

RECURSIVE StripZeros(_)
StripZeros(s) ==
    IF Len(s) > 1 /\ SubSeq(s, 1, 1) = "0" THEN StripZeros(SubSeq(s, 2, Len(s))) ELSE s

\* "%x" in place of "%016x": no padding
HexNotPadded(int_cu_mask) == StripZeros(HexFrom(And64(int_cu_mask), HexDigits - 1))

\* "%016x" % (int_cu_mask & 0xffffffffffffffff)
cu_mask_to_hex_string(int_cu_mask) == HexFrom(And64(int_cu_mask), HexDigits - 1)

RECURSIVE DecStr(_)
\* str(n) for n >= 0
DecStr(n) ==
    IF n < 10 THEN HexChar(n) ELSE DecStr(n \div 10) \o HexChar(n % 10)

\* ----------------------------------------------------------- the hardware
Bits == 0..(MaxUnits - 1)

PairwiseDisjoint(t) ==
    \A g, h \in DOMAIN t : g # h => t[g] \cap t[h] = {}

\* what pysmctrl.get_gpc_info can return: one TPC mask per GPC, a TPC in at
\* most one GPC; a GPC may have no TPC left, and the data may be empty
Topologies ==
    UNION {{t \in [1..n -> SUBSET Bits] : PairwiseDisjoint(t)} : n \in 0..MaxGroups}

AsInts(t) == [g \in DOMAIN t |-> PyInt(t[g])]

UnitsOf(t) == UNION {t[g] : g \in DOMAIN t}

\* int(pysmctrl.get_tpc_info(dev)): the number of TPCs of the device
get_tpc_info(t) == Cardinality(UnitsOf(t))

\* --------------------------------------------------------------- the state
VARIABLES
    args,        \* the parsed command line: cu_count, start_count, stripe, device
    gpcs,        \* the hardware: the GPC masks of device args.device
    pc,          \* where the script is
    err,         \* the exception that ended the script, "" if none
    warnings,    \* the messages of lines 113 and 118 printed so far
    cu_count,    \* __main__'s cu_count
    active_cus,  \* __main__'s loop variable
    cu_mask,     \* the global cu_mask
    req,         \* get_cu_mask's parameter active_cus
    info,        \* get_cu_mask's info
    next_gpc,    \* get_cu_mask's next_gpc
    res,         \* get_cu_mask's res
    b,           \* get_cu_mask's loop variable: units assigned so far
    next_bit,    \* get_cu_mask's next_bit
    scanned,     \* history: iterations of the while loop for the current unit
    calls,       \* history: the get_cu_mask calls made, in order
    procs        \* the Runner processes started, in order, with their state

vars == <<args, gpcs, pc, err, warnings, cu_count, active_cus, cu_mask, req, info,
          next_gpc, res, b, next_bit, scanned, calls, procs>>

allocVars == <<req, info, next_gpc, res, b, next_bit, scanned>>

Args ==
    [cu_count : (-1)..MaxCount, start_count : (-1)..MaxCount,
     stripe : BOOLEAN, device : Devices]

\* args.cu_count = 0 stands for both "--cu_count 0" and no --cu_count at all
\* (None): line 110 tests the truth of the value and sends both the same way.
Init ==
    /\ args \in Args
    /\ gpcs \in Topologies
    /\ pc = "main"
    /\ err = ""
    /\ warnings = {}
    /\ cu_count = 0
    /\ active_cus = 0
    /\ cu_mask = Zero
    /\ req = 0
    /\ info = <<>>
    /\ next_gpc = 0
    /\ res = Zero
    /\ b = 0
    /\ next_bit = Zero
    /\ scanned = 0
    /\ calls = <<>>
    /\ procs = <<>>

\* ------------------------------------------------------------ get_cu_mask
RECURSIVE ContigLoop(_, _, _)
\* lines 74-76: for b in range(active_cus): res = res << 1; res |= 1
\* (the test of r.neg = r.neg changes nothing: it has r evaluated at every
\* iteration, where it would otherwise be evaluated as one chain of n nested
\* applications at the end)
ContigLoop(r, i, n) ==
    IF i >= n \/ r.neg # r.neg THEN r
    ELSE ContigLoop(PyOr(PyShl1(r), PyInt({0})), i + 1, n)

\* a bug: the list of the previous call, with the units it consumed, is used
\* again
FetchInfoStale(hw, old) == IF old = <<>> THEN AsInts(hw) ELSE old

\* line 78: info = pysmctrl.get_gpc_info(dev): the query returns the masks of
\* the device's GPCs, whatever the previous call left in the list it was
\* given
FetchInfo(hw, old) == AsInts(hw)

\* a bug: the cursor is not advanced
NextGpcStay(g, n) == g % n

\* line 87: next_gpc = (next_gpc + 1) % len(info)
NextGpc(g, n) == (g + 1) % n

\* a bug: the cursor is reset to the first GPC for every unit
CursorResetPerUnit(g) == 0

\* lines 79-80: next_gpc is set once, before the loop, and carried from one
\* unit to the next
CursorForUnit(g) == g

\* a bug: an index below 0 does not wrap to the end of the list
PyIndexNoWrap(i, n) == IF i < 0 THEN 0 ELSE i

\* Python's list indexing: a negative index counts from the end
PyIndex(i, n) == IF i < 0 THEN i + n ELSE i

\* a bug: the selected mask is returned as it is
ReturnedNotInverted(r) == r

\* line 95: return ~res
Returned(r) == PyInvert(r)

RECURSIVE ScanFrom(_, _)
\* lines 84-87 as a function: the GPC the while loop stops at, from cursor g
\* (with no set bit anywhere the loop does not stop: g stands for that)
ScanFrom(inf, g) ==
    IF \A k \in DOMAIN inf : LowBit(inf[k]) = Zero THEN g
    ELSE IF LowBit(inf[g + 1]) # Zero THEN g
    ELSE ScanFrom(inf, NextGpc(g, Len(inf)))

RECURSIVE StripedLoop(_, _, _, _, _)
\* lines 80-91 as a function of the list, the cursor, res and the units left
StripedLoop(inf, g, r, i, n) ==
    IF i >= n \/ \A k \in DOMAIN inf : LowBit(inf[k]) = Zero THEN r
    ELSE LET u == ScanFrom(inf, g)
             bit == LowBit(inf[u + 1])
             nxt == NextGpc(u, Len(inf))
         IN StripedLoop(
                [inf EXCEPT ![PyIndex(nxt - 1, Len(inf)) + 1] = PySub(@, bit)],
                nxt, PyOr(r, bit), i + 1, n)

\* get_cu_mask(n, total, True, dev) on a device whose GPC masks are hw, where
\* the call returns (hw holds at least n units)
get_cu_mask_striped(n, hw) == Returned(StripedLoop(AsInts(hw), 0, Zero, 0, n))

\* ------------------------------------------------------- generate_config
\* a bug: the mode is left out of the file name
LogNameNoMode(hex_mask, striped) == "cu_mask_" \o hex_mask \o ".json"

\* line 26: "cu_mask_%s.json" % ("striped_" + hex_mask if striped else hex_mask)
LogName(hex_mask, striped) ==
    "cu_mask_" \o (IF striped THEN "striped_" \o hex_mask ELSE hex_mask) \o ".json"

generate_config(mask, striped) ==
    LET active_cu_count == BinCount1(PyInvert(mask))
        hex_mask == cu_mask_to_hex_string(mask)
    IN [name |-> IF striped THEN "Compute Unit Count vs. Performance (striped)"
                 ELSE "Compute Unit Count vs. Performance",
        cuda_device |-> ConfigDevice,
        label |-> DecStr(active_cu_count),
        log_name |-> LogName(hex_mask, striped),
        sm_mask |-> hex_mask]

\* ---------------------------------------------------------------- __main__
\* a bug: the exception is swallowed and the step goes on to run_process
AbortSwallowed(e) ==
    /\ pc' = "run"
    /\ err' = e

\* an exception nothing catches ends the script
Abort(e) ==
    /\ pc' = "aborted"
    /\ err' = e

\* lines 110-122.  pysmctrl was imported, so it is true: line 119 never exits.
\* Lines 113 and 118 print and go on.  get_tpc_info may raise where it is
\* called: at line 115, with nothing assigned yet, or at line 117, after
\* cu_count was assigned and line 113 has printed.
Main ==
    /\ pc = "main"
    /\ LET cnt == IF args.cu_count # 0 THEN args.cu_count
                  ELSE get_tpc_info(gpcs)
           positive == IF args.cu_count # 0 /\ cnt <= 0
                       THEN {"The CU count must be positive."} ELSE {}
       IN \E outcome \in {"ok", "raised at 115", "raised at 117"} :
            CASE outcome = "raised at 115" ->
                   /\ args.cu_count = 0
                   /\ Abort("get_tpc_info failed")
                   /\ UNCHANGED <<cu_count, active_cus, warnings>>
              [] outcome = "raised at 117" ->
                   /\ Abort("get_tpc_info failed")
                   /\ cu_count' = cnt
                   /\ warnings' = positive
                   /\ active_cus' = active_cus
              [] outcome = "ok" ->
                   /\ cu_count' = cnt
                   /\ warnings' = positive
                         \cup (IF cnt > get_tpc_info(gpcs)
                               THEN {"The CU count must not exceed the number of available TPCs."}
                               ELSE {})
                   /\ active_cus' = args.start_count
                   /\ pc' = "loop"
                   /\ err' = err
    /\ UNCHANGED <<args, gpcs, cu_mask, allocVars, calls, procs>>

\* line 123: range(args.start_count, cu_count) is exhausted
LoopExit ==
    /\ pc = "loop"
    /\ active_cus >= cu_count
    /\ pc' = "done"
    /\ UNCHANGED <<args, gpcs, err, warnings, cu_count, active_cus, cu_mask,
                   allocVars, calls, procs>>

\* a bug: the loop asks for active_cus units
RequestedSame(a) == a

\* line 125: the loop asks for active_cus + 1 units
Requested(a) == a + 1

NewCall == Append(calls, [req |-> Requested(active_cus), dev |-> args.device])

\* line 125 with striped false: lines 72-76 and 95
CallContiguous ==
    /\ pc = "loop"
    /\ active_cus < cu_count
    /\ ~args.stripe
    /\ calls' = NewCall
    /\ req' = Requested(active_cus)
    /\ res' = ContigLoop(Zero, 0, req')
    /\ cu_mask' = Returned(res')
    /\ pc' = "run"
    /\ UNCHANGED <<args, gpcs, err, warnings, cu_count, active_cus, info,
                   next_gpc, b, next_bit, scanned, procs>>

\* line 125 with striped true: lines 72, 78, 79
CallStriped ==
    /\ pc = "loop"
    /\ active_cus < cu_count
    /\ args.stripe
    /\ calls' = NewCall
    /\ req' = Requested(active_cus)
    /\ res' = Zero
    /\ \E ok \in BOOLEAN :
         IF ok
         THEN /\ info' = FetchInfo(gpcs, info)
              /\ next_gpc' = 0
              /\ b' = 0
              /\ pc' = "for"
              /\ err' = err
         ELSE /\ Abort("get_gpc_info failed")
              /\ UNCHANGED <<info, next_gpc, b>>
    /\ UNCHANGED <<args, gpcs, warnings, cu_count, active_cus, cu_mask,
                   next_bit, scanned, procs>>

\* line 80, another unit to assign: line 83
ForNext ==
    /\ pc = "for"
    /\ b < req
    /\ next_bit' = Zero
    /\ next_gpc' = CursorForUnit(next_gpc)
    /\ scanned' = 0
    /\ pc' = "while"
    /\ UNCHANGED <<args, gpcs, err, warnings, cu_count, active_cus, cu_mask,
                   req, info, res, b, calls, procs>>

\* line 80, range(active_cus) exhausted: line 95
Return ==
    /\ pc = "for"
    /\ b >= req
    /\ cu_mask' = Returned(res)
    /\ pc' = "run"
    /\ UNCHANGED <<args, gpcs, err, warnings, cu_count, active_cus, allocVars,
                   calls, procs>>

\* lines 84-87, one iteration of the while loop; info[next_gpc] of an empty
\* list raises IndexError
Scan ==
    /\ pc = "while"
    /\ IF Len(info) = 0
       THEN /\ Abort("IndexError")
            /\ UNCHANGED <<next_bit, next_gpc, scanned>>
       ELSE /\ next_bit' = LowBit(info[next_gpc + 1])
            /\ next_gpc' = NextGpc(next_gpc, Len(info))
            /\ scanned' = IF scanned < ScanCap THEN scanned + 1 ELSE scanned
            /\ pc' = IF next_bit' = Zero THEN "while" ELSE "assign"
            /\ err' = err
    /\ UNCHANGED <<args, gpcs, warnings, cu_count, active_cus, cu_mask, req,
                   info, res, b, calls, procs>>

\* line 89: res |= next_bit
Assign ==
    /\ pc = "assign"
    /\ res' = PyOr(res, next_bit)
    /\ pc' = "remove"
    /\ UNCHANGED <<args, gpcs, err, warnings, cu_count, active_cus, cu_mask,
                   req, info, next_gpc, b, next_bit, scanned, calls, procs>>

\* line 91: info[next_gpc-1] -= next_bit, and back to line 80 for the next b
Remove ==
    /\ pc = "remove"
    /\ info' = [info EXCEPT ![PyIndex(next_gpc - 1, Len(info)) + 1] =
                                PySub(@, next_bit)]
    /\ b' = b + 1
    /\ pc' = "for"
    /\ UNCHANGED <<args, gpcs, err, warnings, cu_count, active_cus, cu_mask,
                   req, res, next_gpc, next_bit, scanned, calls, procs>>

\* ------------------------------------------------------------ run_process
\* a Runner process: the request it was started for, the configuration built
\* for it, whether that configuration has arrived on its stdin, whether its
\* stdin is still open, and its exit status (<<>> while it runs)
NewProc(cfg) ==
    [req |-> req, config |-> cfg, fed |-> FALSE, stdin_open |-> TRUE, exit |-> <<>>]

\* lines 64-66: the config is built from the global cu_mask, then Popen, which
\* raises OSError when ./bin/runner cannot be started
Popen ==
    /\ pc = "run"
    /\ \E ok \in BOOLEAN :
         IF ok
         THEN /\ procs' = Append(procs, NewProc(generate_config(cu_mask, args.stripe)))
              /\ pc' = "communicate"
              /\ err' = err
         ELSE /\ Abort("Popen failed")
              /\ procs' = procs
    /\ UNCHANGED <<args, gpcs, warnings, cu_count, active_cus, cu_mask,
                   allocVars, calls>>

\* line 67, communicate(): the whole input is written to the child's stdin.
\* The write goes through while some process holds the read end of the pipe
\* open, whether or not the child has exited; otherwise it raises IOError
\* (EPIPE), which communicate() swallows: nothing arrives and the script goes
\* on.  Who holds the read end is the Runner's affair: either outcome.
Write ==
    /\ pc = "communicate"
    /\ ~procs[Len(procs)].fed
    /\ procs[Len(procs)].stdin_open
    /\ \E arrived \in BOOLEAN :
         procs' = IF arrived THEN [procs EXCEPT ![Len(procs)].fed = TRUE]
                  ELSE procs
    /\ UNCHANGED <<args, gpcs, pc, err, warnings, cu_count, active_cus, cu_mask,
                   allocVars, calls>>

\* line 67, communicate(): stdin is closed, after the write or the attempt
\* at it (a failed attempt changes nothing, so the close may follow from any
\* state in which stdin is open)
Close ==
    /\ pc = "communicate"
    /\ procs[Len(procs)].stdin_open
    /\ procs' = [procs EXCEPT ![Len(procs)].stdin_open = FALSE]
    /\ UNCHANGED <<args, gpcs, pc, err, warnings, cu_count, active_cus, cu_mask,
                   allocVars, calls>>

\* the Runner: a process of its own, it exits with some status when it does,
\* whether or not it has read its stdin and whether or not stdin was closed
RunnerExit ==
    /\ \E i \in DOMAIN procs, status \in {0, 1} :
         /\ procs[i].exit = <<>>
         /\ procs' = [procs EXCEPT ![i].exit = <<status>>]
    /\ UNCHANGED <<args, gpcs, pc, err, warnings, cu_count, active_cus, cu_mask,
                   allocVars, calls>>

\* communicate() returns only once it has closed stdin and the child has
\* exited
Waited(p) == ~p.stdin_open /\ p.exit # <<>>

\* line 67, communicate() returns (the exit status is not looked at); line 123
WaitReturn ==
    /\ pc = "communicate"
    /\ Waited(procs[Len(procs)])
    /\ active_cus' = active_cus + 1
    /\ pc' = "loop"
    /\ UNCHANGED <<args, gpcs, err, warnings, cu_count, cu_mask, allocVars,
                   calls, procs>>

Next ==
    \/ Main
    \/ LoopExit
    \/ CallContiguous
    \/ CallStriped
    \/ ForNext
    \/ Return
    \/ Scan
    \/ Assign
    \/ Remove
    \/ Popen
    \/ Write
    \/ Close
    \/ RunnerExit
    \/ WaitReturn

Spec == Init /\ [][Next]_vars

\* ------------------------------------------- a start_count below the range
\* --start_count takes any integer and no line looks at it: the sweeps that
\* start at -2.
NegativeStartArgs ==
    [cu_count : 1..2, start_count : {-2}, stripe : BOOLEAN, device : Devices]

NegativeStartInit ==
    /\ args \in NegativeStartArgs
    /\ gpcs \in Topologies
    /\ pc = "main"
    /\ err = ""
    /\ warnings = {}
    /\ cu_count = 0
    /\ active_cus = 0
    /\ cu_mask = Zero
    /\ req = 0
    /\ info = <<>>
    /\ next_gpc = 0
    /\ res = Zero
    /\ b = 0
    /\ next_bit = Zero
    /\ scanned = 0
    /\ calls = <<>>
    /\ procs = <<>>

NegativeStartSpec == NegativeStartInit /\ [][Next]_vars

\* ------------------------------------------------- one call of get_cu_mask
\* The allocator on its own: the script is run for the single step that asks
\* for cu_count units (--start_count cu_count - 1), up to the return of line
\* 125.  Besides the small counts, the counts around the width of the mask
\* are asked for.
WordCounts == {WordBits - 1, WordBits, WordBits + 1}

AllocArgs ==
    {a \in [cu_count : (0..MaxCount) \cup WordCounts,
            start_count : (-1)..(WordBits + 1),
            stripe : BOOLEAN, device : Devices] :
        a.start_count = a.cu_count - 1}

AllocInit ==
    /\ args \in AllocArgs
    /\ gpcs \in Topologies
    /\ pc = "main"
    /\ err = ""
    /\ warnings = {}
    /\ cu_count = 0
    /\ active_cus = 0
    /\ cu_mask = Zero
    /\ req = 0
    /\ info = <<>>
    /\ next_gpc = 0
    /\ res = Zero
    /\ b = 0
    /\ next_bit = Zero
    /\ scanned = 0
    /\ calls = <<>>
    /\ procs = <<>>

\* (args.start_count < cu_count always holds here: the loop is entered)
AllocNext ==
    \/ Main
    \/ CallContiguous
    \/ CallStriped
    \/ ForNext
    \/ Return
    \/ Scan
    \/ Assign
    \/ Remove

AllocSpec == AllocInit /\ [][AllocNext]_vars

\* The striped path alone, for the small counts; the interpreter keeps
\* executing a program that has a next statement.
StripedInit == AllocInit /\ args.stripe /\ args.cu_count <= MaxCount

StripedNext ==
    \/ Main
    \/ CallStriped
    \/ ForNext
    \/ Return
    \/ Scan
    \/ Assign
    \/ Remove

StripedFairSpec == StripedInit /\ [][StripedNext]_vars /\ WF_vars(StripedNext)

\* ================================================================ claims
Selected == res.bits

TotalUnits == Cardinality(UnitsOf(gpcs))

\* get_cu_mask has returned to line 125 and its result has not been replaced
AfterReturn == pc \in {"run", "communicate"}

\* the number of units of GPC g among the selected ones
AssignedFrom(g) == Cardinality(gpcs[g] \cap Selected)

\* C1: a striped call on a topology of pairwise-disjoint GPC masks holding at
\* least active_count units returns the 64-bit complement of a selected mask
\* that has exactly active_count bits, each of them a unit of some GPC.
C1_StripedSelectsExactly ==
    (AfterReturn /\ args.stripe /\ PairwiseDisjoint(gpcs) /\ TotalUnits >= req)
        => /\ ~res.neg
           /\ Cardinality(Selected) = req
           /\ Selected \subseteq UnitsOf(gpcs)
           /\ cu_mask.neg
           /\ And64(cu_mask) = (0..(WordBits - 1)) \ Selected

C1_Witness ==
    /\ AfterReturn /\ args.stripe
    /\ req = 3 /\ Len(gpcs) >= 2
    /\ \A g \in DOMAIN gpcs : gpcs[g] # {}
    /\ Cardinality(Selected) = 3

\* C2: at every point of a striped allocation and at its return, a GPC that
\* still has an unassigned unit in the list the call works on is behind any
\* other GPC by at most one assigned unit.
C2_EvenSpread ==
    (args.stripe /\ pc \in {"for", "while", "assign", "remove", "run", "communicate"})
        => \A g, h \in DOMAIN info :
              (info[g].bits # {}) => AssignedFrom(h) <= AssignedFrom(g) + 1

\* the bound is met: a GPC with a unit left is exactly one unit behind another,
\* while a third, exhausted, GPC is behind both
C2_Witness ==
    /\ args.stripe /\ pc = "for" /\ b >= 1
    /\ \E g, h \in DOMAIN info :
          /\ info[g].bits # {}
          /\ AssignedFrom(h) = AssignedFrom(g) + 1
    /\ \E e, h \in DOMAIN info :
          /\ info[e].bits = {}
          /\ AssignedFrom(h) > AssignedFrom(e)

\* C3 (as claimed): asked for more units than the topology holds, a striped
\* allocation ends in InsufficientUnitsError once a full scan of all GPCs has
\* found no available bit, and no Runner is started for that step.
C3_InsufficientUnitsError ==
    (/\ args.stripe /\ req > TotalUnits
     /\ pc \in {"while", "aborted"}
     /\ Len(info) > 0 /\ scanned >= Len(info) /\ next_bit = Zero)
        => /\ pc = "aborted"
           /\ err = "InsufficientUnitsError"
           /\ \A i \in DOMAIN procs : procs[i].req # req

ValidRange == pc # "main" /\ 0 <= args.start_count /\ args.start_count < cu_count

Exited(p) == p.exit # <<>>

\* C4: with 0 <= start_count < total_count, the k-th allocator call and the
\* k-th Runner invocation are for start_count + k units, a Runner is started
\* only after its step's allocator call, and a sweep that ends has made
\* exactly total_count - start_count calls and invocations.
C4_SweepOrdering ==
    ValidRange =>
        /\ \A k \in DOMAIN calls : calls[k].req = args.start_count + k
        /\ \A k \in DOMAIN procs : procs[k].req = args.start_count + k
        /\ Len(procs) <= Len(calls)
        /\ Len(calls) <= Len(procs) + 1
        /\ Len(calls) <= cu_count - args.start_count
        /\ pc = "done" =>
              /\ Len(calls) = cu_count - args.start_count
              /\ Len(procs) = cu_count - args.start_count
              /\ \A k \in DOMAIN procs : Exited(procs[k])

C4_Witness ==
    /\ pc = "done" /\ args.start_count = 1 /\ cu_count = 3
    /\ Len(procs) = 2 /\ procs[1].req = 2 /\ procs[2].req = 3

Running == {i \in DOMAIN procs : ~Exited(procs[i])}

\* C5 (as claimed): at most one Runner process is running, and while the
\* script is anywhere between two steps or in an allocation, every Runner
\* started so far has received its configuration, had its stdin closed, and
\* exited.  (Violated: a Runner that has closed its stdin, or has exited,
\* before the write receives nothing, communicate() swallows the broken
\* pipe, and the sweep goes on.)
C5_SingleRunner ==
    /\ Cardinality(Running) <= 1
    /\ (ValidRange /\ pc \in {"loop", "for", "while", "assign", "remove", "run", "done"}) =>
          \A i \in DOMAIN procs :
             procs[i].fed /\ ~procs[i].stdin_open /\ Exited(procs[i])

\* C6: every striped allocation starts from the whole topology of the
\* hardware, and what it returns is what a call on its own for the same
\* count and topology returns.
C6_NoTopologyLeak ==
    /\ (args.stripe /\ pc = "for" /\ b = 0) => info = AsInts(gpcs)
    /\ (args.stripe /\ AfterReturn /\ TotalUnits >= req) =>
          cu_mask = get_cu_mask_striped(req, gpcs)

\* a later step, after an earlier one consumed units, starts from all of them
C6_Witness ==
    /\ args.stripe /\ pc = "for" /\ b = 0
    /\ Len(calls) = 3 /\ calls[1].req >= 1
    /\ TotalUnits = 3 /\ info = AsInts(gpcs)

\* C7 (as claimed): once the Runner of a step has exited with a status other
\* than 0, no allocator call and no Runner invocation follows.
C7_RunnerFailureFatal ==
    \A i \in DOMAIN procs :
        (Exited(procs[i]) /\ procs[i].exit # <<0>>) =>
            Len(procs) = i /\ Len(calls) = i

TopologyFailed == err \in {"get_gpc_info failed", "IndexError"}

\* C8 (as claimed): when the topology query of any step of a striped sweep
\* fails or returns empty data, no Runner process has been started in the
\* sweep.  Stated for the sweeps over a valid range.
C8_TopologyFailureBeforeAnyRunner ==
    (ValidRange /\ TopologyFailed) => procs = <<>>

\* C8 (amended): when the topology query fails, or returns empty data to a
\* request for at least one unit, the sweep aborts at that step: the Runners
\* started are those of the earlier steps and all have exited; none is started
\* for the failing step, and none at all when the failing step is the first.
C8_TopologyFailureAbortsStep ==
    /\ TopologyFailed =>
          /\ pc = "aborted"
          /\ Len(procs) = Len(calls) - 1
          /\ \A i \in DOMAIN procs : Exited(procs[i]) /\ procs[i].req < req
          /\ Len(calls) = 1 => procs = <<>>
    /\ (args.stripe /\ gpcs = <<>>) => \A i \in DOMAIN procs : procs[i].req < 1

C8_Witness ==
    /\ pc = "aborted" /\ err = "get_gpc_info failed"
    /\ Len(calls) = 2 /\ Len(procs) = 1 /\ Exited(procs[1])

InvalidRange ==
    /\ pc # "main"
    /\ \/ args.start_count < 0
       \/ cu_count <= 0
       \/ args.start_count >= cu_count
       \/ cu_count > get_tpc_info(gpcs)

\* C9 (as claimed): with an invalid range, or a total above the unit count of
\* the hardware, no configuration is delivered to a Runner process.
C9_InvalidRangeSendsNothing ==
    InvalidRange => \A i \in DOMAIN procs : ~procs[i].fed

\* C10 (as claimed): in contiguous mode the returned mask, as the 64-bit value
\* sent to the Runner, has exactly the low active_count bits set.
C10_ContiguousLowBitsSet ==
    (~args.stripe /\ AfterReturn /\ 0 <= req /\ req <= WordBits)
        => And64(cu_mask) = 0..(req - 1)

\* C10 (amended): in contiguous mode the returned mask, as the 64-bit value
\* sent to the Runner, has exactly the low active_count bits clear and the
\* other 64 - active_count bits set, and that value is the sm_mask field.
C10_ContiguousLowBitsClear ==
    /\ (~args.stripe /\ AfterReturn /\ 0 <= req /\ req <= WordBits)
          => /\ And64(cu_mask) = req..(WordBits - 1)
             /\ Cardinality(And64(cu_mask)) = WordBits - req
    /\ (~args.stripe /\ pc = "communicate")
          => procs[Len(procs)].config.sm_mask = cu_mask_to_hex_string(cu_mask)

C10_Witness ==
    /\ ~args.stripe /\ pc = "communicate"
    /\ req = 3 /\ procs[Len(procs)].fed
    /\ procs[Len(procs)].config.sm_mask = "fffffffffffffff8"

\* C11: in contiguous mode, for 0 <= n <= 64, the complement within 64 bits
\* of the returned value has exactly n set bits, the positions 0 .. n-1.
C11_ContiguousComplement ==
    (~args.stripe /\ AfterReturn /\ 0 <= req /\ req <= WordBits)
        => /\ And64(PyInvert(cu_mask)) = 0..(req - 1)
           /\ Cardinality(And64(PyInvert(cu_mask))) = req
           /\ (0..(WordBits - 1)) \ And64(cu_mask) = 0..(req - 1)

\* all 64 units are asked for: the complement of the returned value fills
\* the width of the mask
C11_Witness ==
    /\ ~args.stripe /\ AfterReturn
    /\ req = WordBits
    /\ And64(PyInvert(cu_mask)) = 0..(WordBits - 1)
    /\ And64(cu_mask) = {}

\* ---- reading a hexadecimal string back
HexDigitValue(c) ==
    CASE c = "0" -> 0 [] c = "1" -> 1 [] c = "2" -> 2 [] c = "3" -> 3
      [] c = "4" -> 4 [] c = "5" -> 5 [] c = "6" -> 6 [] c = "7" -> 7
      [] c = "8" -> 8 [] c = "9" -> 9 [] c = "a" -> 10 [] c = "b" -> 11
      [] c = "c" -> 12 [] c = "d" -> 13 [] c = "e" -> 14 [] c = "f" -> 15

CharAt(s, i) == SubSeq(s, i, i)

IsHexString(s) ==
    \A i \in 1..Len(s) :
        CharAt(s, i) \in {"0", "1", "2", "3", "4", "5", "6", "7",
                          "8", "9", "a", "b", "c", "d", "e", "f"}

Pow2(j) == CASE j = 0 -> 1 [] j = 1 -> 2 [] j = 2 -> 4 [] j = 3 -> 8

\* the set bits of int(s, 16): the i-th character from the left holds the
\* bits 4 * (Len(s) - i) .. 4 * (Len(s) - i) + 3
HexDecode(s) ==
    {4 * (Len(s) - i) + j : <<i, j>> \in
        {<<i, j>> \in (1..Len(s)) \X (0..3) :
            (HexDigitValue(CharAt(s, i)) \div Pow2(j)) % 2 = 1}}

LastProc == procs[Len(procs)]

\* C12: in the configuration of a Runner, in both modes, the label is the
\* decimal string of the number of units the allocator selected for that
\* step, which is the number of one bits of the complement of the value it
\* returned, and the sm_mask field is that returned value in hexadecimal.
C12_LabelFromMask ==
    pc = "communicate" =>
        /\ ~PyInvert(cu_mask).neg
        /\ PyInvert(cu_mask).bits = Selected
        /\ LastProc.config.label = DecStr(Cardinality(Selected))
        /\ IsHexString(LastProc.config.sm_mask)
        /\ HexDecode(LastProc.config.sm_mask) = And64(cu_mask)

C12_Witness ==
    /\ pc = "communicate" /\ args.stripe /\ LastProc.fed
    /\ Selected = {0, 1, 2}
    /\ LastProc.config.label = "3"
    /\ LastProc.config.sm_mask = "fffffffffffffff8"

\* what get_cu_mask returns for n units on this hardware in this mode, as a
\* function of n alone
MaskOfCount(n) ==
    IF args.stripe THEN get_cu_mask_striped(n, gpcs)
    ELSE Returned(ContigLoop(Zero, 0, n))

\* the configuration (mask, label, log file name) for n units
ConfigOfCount(n) == generate_config(MaskOfCount(n), args.stripe)

\* C13: in a sweep started with start_count = s, 0 <= s < total_count, the
\* k-th configuration delivered to a Runner is the one for s + k units, a
\* function of s + k, the topology and the mode alone: it is the (s + k)-th
\* configuration of the sweep started with start_count = 0, no configuration
\* for a count <= s is run, and a sweep that ends has delivered the last
\* total_count - s of them.
C13_Resumable ==
    ValidRange =>
        /\ \A k \in DOMAIN procs :
              procs[k].req = args.start_count + k /\ procs[k].req > args.start_count
        /\ (pc = "communicate" /\ LastProc.fed /\ LastProc.stdin_open) =>
              LastProc.config = ConfigOfCount(args.start_count + Len(procs))
        /\ pc = "done" => Len(procs) = cu_count - args.start_count

\* a striped sweep resumed at 2 of 3 delivers, first, the configuration of 3
C13_Witness ==
    /\ args.stripe /\ args.start_count = 2 /\ cu_count = 3
    /\ pc = "communicate" /\ Len(procs) = 1 /\ LastProc.fed /\ LastProc.stdin_open
    /\ LastProc.config = ConfigOfCount(3)
    /\ LastProc.config.label = "3"

\* C14: every mask the allocator returns, the negative ones of the complement
\* included, is written by cu_mask_to_hex_string as exactly 16 hexadecimal
\* characters, zero-padded, that decode to the mask modulo 2^64.
C14_HexRoundTrip ==
    AfterReturn =>
        /\ Len(cu_mask_to_hex_string(cu_mask)) = HexDigits
        /\ IsHexString(cu_mask_to_hex_string(cu_mask))
        /\ HexDecode(cu_mask_to_hex_string(cu_mask)) = And64(cu_mask)

\* a negative mask whose low 64 bits are all padding: 64 contiguous units
C14_Witness ==
    /\ AfterReturn /\ ~args.stripe /\ req = WordBits /\ cu_mask.neg
    /\ cu_mask_to_hex_string(cu_mask) = "0000000000000000"
    /\ HexDecode("0000000000000000") = {}

RECURSIVE SelectionAfter(_, _)
\* the striped selection as the rule states it, on sets: after k units of the
\* groups t, what remains of each group, the cursor, and the units selected.
\* The k-th unit is the lowest of the first group, in cyclic order from the
\* cursor, that still has a unit; the cursor moves to the group after it.
SelectionAfter(t, k) ==
    IF k = 0 THEN [rem |-> t, cur |-> 0, sel |-> {}]
    ELSE LET p == SelectionAfter(t, k - 1)
             n == Len(t)
             d == Min({e \in 0..(n - 1) : p.rem[((p.cur + e) % n) + 1] # {}})
             u == (p.cur + d) % n
             unit == Min(p.rem[u + 1])
         IN [rem |-> [p.rem EXCEPT ![u + 1] = @ \ {unit}],
             cur |-> (u + 1) % n,
             sel |-> p.sel \cup {unit}]

\* C15: the k-th unit assigned by a striped allocation is the lowest set bit
\* of the first group, in cyclic order from the cursor, that still has a bit;
\* the cursor is group 0 for the first unit and afterwards the group after
\* (wrapping) the one just used; the bit is cleared from that group's entry
\* and no other, also when the group used is the last one.
C15_StripedSelectionOrder ==
    (args.stripe /\ pc = "for") =>
        LET e == SelectionAfter(gpcs, b)
        IN /\ info = AsInts(e.rem)
           /\ res = PyInt(e.sel)
           /\ next_gpc = e.cur

\* two units assigned, the second from the last group after an empty group
\* was passed over, and the cursor back at group 0
C15_Witness ==
    /\ args.stripe /\ pc = "for" /\ b = 2
    /\ Len(gpcs) = 3 /\ gpcs[2] = {} /\ Cardinality(gpcs[3]) = 2
    /\ next_gpc = 0
    /\ info[3] = PyInt(gpcs[3] \ {Min(gpcs[3])})
    /\ info[1] = Zero /\ info[2] = Zero
    /\ res = PyInt(gpcs[1] \cup {Min(gpcs[3])})

\* a striped allocation under way on a non-empty topology that holds at least
\* the requested number of units
StripedOnValidInput ==
    /\ args.stripe /\ pc \in {"for", "while", "assign", "remove"}
    /\ Len(gpcs) > 0 /\ TotalUnits >= req

\* C16: on a non-empty topology with at least active_count set bits the
\* striped path of get_cu_mask eventually returns, and for each unit the
\* while loop has inspected at most len(info) groups when it finds a bit.
C16_StripedTerminates ==
    /\ []((StripedOnValidInput /\ pc = "assign") => scanned <= Len(info))
    /\ (StripedOnValidInput ~> (pc = "run" /\ cu_mask = Returned(res)))

\* a unit found only after every group was inspected, the cursor's own last
C16_Witness ==
    /\ StripedOnValidInput /\ pc = "assign"
    /\ Len(info) = 3 /\ scanned = 3 /\ b >= 1

\* the units still in the list of the call under way
Remaining == UNION {info[g].bits : g \in DOMAIN info}

\* C17 (as claimed): on a topology of pairwise disjoint groups, in every
\* state of the striped loop the selected mask is disjoint from every
\* group's remaining entry, every remaining entry is within the group's
\* original entry, and the selected units together with the remaining ones
\* are the units of the original groups.  (Violated between line 89 and
\* line 91: the bit just taken is in res and still in its group's entry.)
C17_UnitConservation ==
    (args.stripe /\ pc \in {"for", "while", "assign", "remove"}) =>
        /\ DOMAIN info = DOMAIN gpcs
        /\ ~res.neg
        /\ \A g \in DOMAIN info :
              /\ ~info[g].neg
              /\ info[g].bits \cap Selected = {}
              /\ info[g].bits \subseteq gpcs[g]
        /\ Selected \cup Remaining = UnitsOf(gpcs)

\* C17, amended: in every state of the striped loop every remaining entry is
\* within the group's original entry and the selected units together with
\* the remaining ones are the units of the original groups; the selected
\* mask is disjoint from every group's remaining entry before each unit,
\* during the scan and when a bit has been found, with b units selected;
\* between line 89 and line 91 the bit just taken, and no other, is in both
\* res and the entry of the group it was found in.
C17_ConservedAtBoundaries ==
    (args.stripe /\ pc \in {"for", "while", "assign", "remove"}) =>
        /\ DOMAIN info = DOMAIN gpcs
        /\ ~res.neg
        /\ \A g \in DOMAIN info : ~info[g].neg /\ info[g].bits \subseteq gpcs[g]
        /\ Selected \cup Remaining = UnitsOf(gpcs)
        /\ pc # "remove" =>
              /\ \A g \in DOMAIN info : info[g].bits \cap Selected = {}
              /\ Cardinality(Selected) = b
        /\ pc = "remove" =>
              /\ Cardinality(next_bit.bits) = 1
              /\ Cardinality(Selected) = b + 1
              /\ \A g \in DOMAIN info :
                    info[g].bits \cap Selected =
                        IF g = PyIndex(next_gpc - 1, Len(info)) + 1
                        THEN next_bit.bits ELSE {}

\* between line 89 and line 91 of the second unit: the first unit's group has
\* lost its bit, the second's still holds the bit that is already in res
C17_Witness ==
    /\ args.stripe /\ pc = "remove" /\ b = 1
    /\ Cardinality(Selected) = 2 /\ Remaining \cap Selected = next_bit.bits
    /\ \E g, h \in DOMAIN gpcs :
          /\ g # h
          /\ gpcs[g] \cap Selected # {} /\ info[g].bits \cap Selected = {}
          /\ info[h].bits \cap Selected = next_bit.bits

\* the mask get_cu_mask returns for n contiguous units
ContigMask(n) == Returned(ContigLoop(Zero, 0, n))

\* C18 (as claimed): for a fixed mode and topology the units selected for n are a strict
\* subset of those selected for n + 1, up to 64 units, so two requests give
\* different masks; within a sweep the steps have different masks and
\* different log_name values; a striped and a contiguous step never have the
\* same log_name.  Each step is compared, when its configuration has been
\* delivered, with all the steps before it and with the other mode's file
\* for the same mask and for every count.  (Violated by a sweep that starts
\* below 0: the requests for -1 and for 0 units both select nothing.)
C18_NoLogOverwritten ==
    /\ (pc = "communicate" /\ LastProc.fed /\ LastProc.stdin_open) =>
          /\ \A j \in 1..(Len(procs) - 1) :
                /\ procs[j].config.log_name # LastProc.config.log_name
                /\ procs[j].config.sm_mask # LastProc.config.sm_mask
                /\ HexDecode(LastProc.config.sm_mask)
                       # HexDecode(procs[j].config.sm_mask)
          /\ generate_config(cu_mask, ~args.stripe).log_name
                 # LastProc.config.log_name
          /\ \A n \in 0..MaxCount :
                LastProc.config.log_name #
                    generate_config(IF args.stripe THEN ContigMask(n)
                                    ELSE get_cu_mask_striped(n, gpcs),
                                    ~args.stripe).log_name
    /\ (pc = "loop" /\ procs = <<>>) =>
          \A n \in 0..(MaxCount - 1) :
              (args.stripe => n + 1 <= TotalUnits) =>
                  /\ PyInvert(MaskOfCount(n)).bits
                         \subseteq PyInvert(MaskOfCount(n + 1)).bits
                  /\ PyInvert(MaskOfCount(n)).bits # PyInvert(MaskOfCount(n + 1)).bits
                  /\ ConfigOfCount(n).log_name # ConfigOfCount(n + 1).log_name
    /\ (pc = "main" /\ ~args.stripe /\ gpcs = <<>>) =>
          \A n \in {WordBits - 2, WordBits - 1} :
              /\ PyInvert(ContigMask(n)).bits \subseteq PyInvert(ContigMask(n + 1)).bits
              /\ PyInvert(ContigMask(n)).bits # PyInvert(ContigMask(n + 1)).bits
              /\ generate_config(ContigMask(n), FALSE).log_name
                     # generate_config(ContigMask(n + 1), FALSE).log_name

\* C19: at every step of a striped sweep run for device d the configuration
\* delivered to the Runner names device d, the device whose topology was
\* queried for the step's mask.  (Violated: line 45 writes "cuda_device": 0
\* whatever --device says; sweeps of a valid range suffice to show it.)
C19_DeviceConsistency ==
    (ValidRange /\ args.stripe) =>
        \A k \in DOMAIN procs :
            procs[k].fed =>
                /\ calls[k].dev = args.device
                /\ procs[k].config.cuda_device = calls[k].dev

====
